---- MODULE Spec2Model ----
(***************************************************************************)
(* Model of shared_utils/text_processing.py (class TextProcessor) and of   *)
(* shared_utils/config_management.py (ConfigManager.load_config).          *)
(*                                                                         *)
(* A text is a sequence of Unicode code points (naturals), so the          *)
(* character classes of the regular expressions are the code-point ranges  *)
(* the source writes.  The value None is the one-element sequence <<-1>>,  *)
(* which is no string.  The texts of the model are built from ASCII and    *)
(* the emoji code points listed in IsEmoji; on that alphabet str.isupper,  *)
(* str.lower, \w, \d and \s are the ASCII classes written below.           *)
(***************************************************************************)
EXTENDS Integers, Sequences, FiniteSets, TLC

VARIABLES text,          \* the text argument of the call
          op,            \* "idle" before the call, then the method called
          remove_emojis, \* clean_text's flag
          min_length,    \* extract_buzzwords' minimum length
          outcome,       \* "none" | "returned" | "raised"
          result,        \* the value returned (or the exception's name)
          emoji_pattern, \* the shared TextProcessor's self.emoji_pattern
          calls,         \* the frame of each thread's call on the processor
          files,         \* the files of config_dir and what they hold
          config_cache,  \* the ConfigManager's self._config_cache
          loaded         \* the last load_config call: arguments, path, result

\* the state of the calls made one at a time
text_vars == <<text, op, remove_emojis, min_length, outcome, result>>
\* the state of the calls made by concurrent threads
thread_vars == <<emoji_pattern, calls>>
\* the state of the ConfigManager and of its directory
config_vars == <<files, config_cache, loaded>>

vars == <<text_vars, thread_vars, config_vars>>

None == << -1 >>

(***************************************************************************)
(* Character classes                                                       *)
(***************************************************************************)
IsDigit(c) == c \in 48..57
IsUpper(c) == c \in 65..90
IsLower(c) == c \in 97..122
IsAlpha(c) == IsUpper(c) \/ IsLower(c)
\* \w of a str pattern
IsWord(c) == IsAlpha(c) \/ IsDigit(c) \/ c = 95
\* \s of a str pattern, str.isspace (str.split, str.strip)
IsSpace(c) == c \in 9..13 \/ c \in 28..32 \/ c = 133 \/ c = 160
\* str.lower / re.IGNORECASE folding
Lower(c) == IF IsUpper(c) THEN c + 32 ELSE c
\* string.punctuation
IsPunct(c) == c \in 33..47 \/ c \in 58..64 \/ c \in 91..96 \/ c \in 123..126
\* the character class of self.emoji_pattern
IsEmoji(c) ==
    \/ c \in 128512..128591      \* U+1F600-U+1F64F
    \/ c \in 127744..128511      \* U+1F300-U+1F5FF
    \/ c \in 128640..128767      \* U+1F680-U+1F6FF
    \/ c \in 127456..127487      \* U+1F1E0-U+1F1FF
    \/ c \in 9986..10160         \* U+2702-U+27B0
    \/ c \in 9410..127569        \* U+24C2-U+1F251
\* one character of the URL pattern's first four alternatives:
\* [a-zA-Z] | [0-9] | [$-_@.&+] | [!*\\(\\),]
IsUrlChar(c) ==
    \/ IsAlpha(c)
    \/ IsDigit(c)
    \/ c \in 36..95 \/ c = 64 \/ c = 46 \/ c = 38 \/ c = 43
    \/ c \in {33, 42, 92, 40, 41, 44}
IsHex(c) == IsDigit(c) \/ c \in 65..70 \/ c \in 97..102

(***************************************************************************)
(* Sequences                                                               *)
(***************************************************************************)
Slice(t, i, j) == IF i > j THEN <<>> ELSE SubSeq(t, i, j)

LowerSeq(t) == [i \in 1..Len(t) |-> Lower(t[i])]

\* does lit occur in t at position i, letters compared case-folded
LitAtCI(t, i, lit) ==
    /\ i + Len(lit) - 1 <= Len(t)
    /\ \A k \in 1..Len(lit) : Lower(t[i + k - 1]) = Lower(lit[k])

LitAt(t, i, lit) ==
    /\ i + Len(lit) - 1 <= Len(t)
    /\ \A k \in 1..Len(lit) : t[i + k - 1] = lit[k]

\* \b between positions i-1 and i (1 <= i <= Len(t)+1)
Boundary(t, i) ==
    LET before == i > 1 /\ IsWord(t[i - 1])
        after  == i <= Len(t) /\ IsWord(t[i])
    IN  before # after

\* least j >= i with t[j] not satisfying the class given as a set of
\* positions; Len(t)+1 when there is none
RECURSIVE RunEnd(_, _, _)
RunEnd(t, inClass, i) ==
    IF i <= Len(t) /\ inClass[i] THEN RunEnd(t, inClass, i + 1) ELSE i

(***************************************************************************)
(* re.findall / re.sub: the leftmost non-overlapping matches.  ends[i] is  *)
(* the position after the match the pattern finds starting at i, 0 when it *)
(* finds none there (no pattern of the source matches the empty string).   *)
(***************************************************************************)
RECURSIVE Scan(_, _, _)
Scan(ends, i, acc) ==
    IF i > Len(ends) THEN acc
    ELSE IF ends[i] > 0 THEN Scan(ends, ends[i], Append(acc, <<i, ends[i]>>))
    ELSE Scan(ends, i + 1, acc)

Matches(ends) == Scan(ends, 1, <<>>)

\* re.sub(pattern, repl, t) given the matches' spans
RECURSIVE SubFrom(_, _, _, _, _)
SubFrom(t, spans, repl, k, pos) ==
    IF k > Len(spans) THEN Slice(t, pos, Len(t))
    ELSE Slice(t, pos, spans[k][1] - 1) \o repl
         \o SubFrom(t, spans, repl, k + 1, spans[k][2])

Sub(t, spans, repl) == SubFrom(t, spans, repl, 1, 1)

\* re.findall(pattern, t): the matched texts
FindAll(t, spans) == [k \in 1..Len(spans) |-> Slice(t, spans[k][1], spans[k][2] - 1)]

(***************************************************************************)
(* The patterns of clean_text                                              *)
(***************************************************************************)
\* <[^>]+>  at position i
MatchTag(t, i) ==
    IF t[i] = 60 /\ i + 1 <= Len(t) /\ t[i + 1] # 62
    THEN LET j == RunEnd(t, [k \in 1..Len(t) |-> t[k] # 62], i + 1)
         IN  IF j <= Len(t) THEN j + 1 ELSE 0
    ELSE 0

TagSpans(t) == Matches([i \in 1..Len(t) |-> MatchTag(t, i)])

\* one iteration of the URL pattern's group at position j: the position
\* after it, 0 when no alternative matches
UrlStep(t, j) ==
    IF j > Len(t) THEN 0
    ELSE IF IsUrlChar(t[j]) THEN j + 1
    ELSE IF t[j] = 37 /\ j + 2 <= Len(t) /\ IsHex(t[j + 1]) /\ IsHex(t[j + 2])
         THEN j + 3
    ELSE 0

RECURSIVE UrlRun(_, _)
UrlRun(t, j) == IF UrlStep(t, j) = 0 THEN j ELSE UrlRun(t, UrlStep(t, j))

\* http[s]?://(?:...)+  at position i
MatchUrl(t, i) ==
    LET http == <<104, 116, 116, 112>>
        sep  == <<58, 47, 47>>
        j    == IF LitAt(t, i, http) /\ i + 4 <= Len(t) /\ t[i + 4] = 115
                THEN i + 5 ELSE i + 4
    IN  IF LitAt(t, i, http) /\ LitAt(t, j, sep) /\ UrlStep(t, j + 3) # 0
        THEN UrlRun(t, j + 3)
        ELSE 0

UrlSpans(t) == Matches([i \in 1..Len(t) |-> MatchUrl(t, i)])

\* self.emoji_pattern: [...]+ at position i
MatchEmoji(t, i) ==
    IF IsEmoji(t[i])
    THEN RunEnd(t, [k \in 1..Len(t) |-> IsEmoji(t[k])], i)
    ELSE 0

EmojiSpans(t) == Matches([i \in 1..Len(t) |-> MatchEmoji(t, i)])

\* \s+ at position i
MatchSpaces(t, i) ==
    IF IsSpace(t[i])
    THEN RunEnd(t, [k \in 1..Len(t) |-> IsSpace(t[k])], i)
    ELSE 0

SpaceSpans(t) == Matches([i \in 1..Len(t) |-> MatchSpaces(t, i)])

\* str.strip()
RECURSIVE LStrip(_)
LStrip(t) == IF t # <<>> /\ IsSpace(Head(t)) THEN LStrip(Tail(t)) ELSE t
RECURSIVE RStrip(_)
RStrip(t) ==
    IF t # <<>> /\ IsSpace(t[Len(t)]) THEN RStrip(SubSeq(t, 1, Len(t) - 1)) ELSE t
Strip(t) == RStrip(LStrip(t))

RemoveTags(t) == Sub(t, TagSpans(t), <<>>)
RemoveUrls(t) == Sub(t, UrlSpans(t), <<>>)
RemoveEmojis(t) == Sub(t, EmojiSpans(t), <<>>)
CollapseSpaces(t) == Sub(t, SpaceSpans(t), <<32>>)

\* clean_text with the emojis removed whatever the flag
clean_text_always_emojis(t, re) ==
    IF t = None \/ t = <<>> THEN <<>>
    ELSE Strip(CollapseSpaces(RemoveEmojis(RemoveUrls(RemoveTags(t)))))

\* clean_text with the whitespace normalized before the emojis are removed
clean_text_spaces_first(t, re) ==
    IF t = None \/ t = <<>> THEN <<>>
    ELSE LET t1 == RemoveTags(t)
             t2 == RemoveUrls(t1)
             t3 == Strip(CollapseSpaces(t2))
         IN  IF re THEN RemoveEmojis(t3) ELSE t3

\* clean_text with the URLs removed before the tags
clean_text_urls_first(t, re) ==
    IF t = None \/ t = <<>> THEN <<>>
    ELSE LET t1 == RemoveUrls(t)
             t2 == RemoveTags(t1)
             t3 == IF re THEN RemoveEmojis(t2) ELSE t2
             t4 == CollapseSpaces(t3)
         IN  Strip(t4)

\* TextProcessor.clean_text
clean_text(t, re) ==
    IF t = None \/ t = <<>> THEN <<>>
    ELSE LET t1 == RemoveTags(t)
             t2 == RemoveUrls(t1)
             t3 == IF re THEN RemoveEmojis(t2) ELSE t2
             t4 == CollapseSpaces(t3)
         IN  Strip(t4)

(***************************************************************************)
(* Whole-word patterns  \b(w1|w2|...)\b  with re.IGNORECASE                *)
(***************************************************************************)
\* the alternatives matched without re.IGNORECASE
RECURSIVE FirstAltCaseSensitive(_, _, _, _)
FirstAltCaseSensitive(t, i, alts, k) ==
    IF k > Len(alts) THEN 0
    ELSE IF LitAt(t, i, alts[k]) /\ Boundary(t, i + Len(alts[k]))
         THEN i + Len(alts[k])
    ELSE FirstAltCaseSensitive(t, i, alts, k + 1)

\* the first alternative, in the pattern's order, that matches at i with a
\* word boundary on both sides; 0 when none does
RECURSIVE FirstAlt(_, _, _, _)
FirstAlt(t, i, alts, k) ==
    IF k > Len(alts) THEN 0
    ELSE IF LitAtCI(t, i, alts[k]) /\ Boundary(t, i + Len(alts[k]))
         THEN i + Len(alts[k])
    ELSE FirstAlt(t, i, alts, k + 1)

MatchWords(t, i, alts) == IF Boundary(t, i) THEN FirstAlt(t, i, alts, 1) ELSE 0

WordSpans(t, alts) == Matches([i \in 1..Len(t) |-> MatchWords(t, i, alts)])

\* the matches of the first pattern only
SumMatchesFirstList(t, patterns, k) == Len(WordSpans(t, patterns[1]))

\* sum(len(re.findall(pattern, text, re.IGNORECASE)) for pattern in patterns)
RECURSIVE SumMatches(_, _, _)
SumMatches(t, patterns, k) ==
    IF k > Len(patterns) THEN 0
    ELSE Len(WordSpans(t, patterns[k])) + SumMatches(t, patterns, k + 1)

(***************************************************************************)
(* The fixed word lists                                                    *)
(***************************************************************************)
\* cta_patterns of extract_features: each \b(w1|w2|...)\b
features_cta_patterns ==
    <<
      <<
        <<115, 104, 111, 112>>,    \* shop
        <<98, 117, 121>>,    \* buy
        <<103, 101, 116>>,    \* get
        <<116, 114, 121>>,    \* try
        <<108, 101, 97, 114, 110>>,    \* learn
        <<100, 105, 115, 99, 111, 118, 101, 114>>,    \* discover
        <<115, 105, 103, 110, 32, 117, 112>>,    \* sign up
        <<100, 111, 119, 110, 108, 111, 97, 100>>    \* download
      >>,
      <<
        <<110, 111, 119>>,    \* now
        <<116, 111, 100, 97, 121>>,    \* today
        <<99, 108, 105, 99, 107>>,    \* click
        <<116, 97, 112>>,    \* tap
        <<118, 105, 115, 105, 116>>    \* visit
      >>
    >>

\* cta_patterns of extract_cta_text: action, instruction, urgency
cta_patterns ==
    <<
      <<
        <<115, 104, 111, 112, 32, 110, 111, 119>>,    \* shop now
        <<98, 117, 121, 32, 116, 111, 100, 97, 121>>,    \* buy today
        <<103, 101, 116, 32, 115, 116, 97, 114, 116, 101, 100>>,    \* get started
        <<108, 101, 97, 114, 110, 32, 109, 111, 114, 101>>,    \* learn more
        <<115, 105, 103, 110, 32, 117, 112>>,    \* sign up
        <<100, 111, 119, 110, 108, 111, 97, 100>>    \* download
      >>,
      <<
        <<99, 108, 105, 99, 107, 32, 104, 101, 114, 101>>,    \* click here
        <<116, 97, 112, 32, 116, 111>>,    \* tap to
        <<118, 105, 115, 105, 116, 32, 117, 115>>,    \* visit us
        <<116, 114, 121, 32, 102, 114, 101, 101>>,    \* try free
        <<111, 114, 100, 101, 114, 32, 110, 111, 119>>    \* order now
      >>,
      <<
        <<108, 105, 109, 105, 116, 101, 100, 32, 116, 105, 109, 101>>,    \* limited time
        <<97, 99, 116, 32, 110, 111, 119>>,    \* act now
        <<100, 111, 110, 39, 116, 32, 109, 105, 115, 115>>,    \* don't miss
        <<104, 117, 114, 114, 121, 32, 117, 112>>    \* hurry up
      >>
    >>

\* positive_patterns
positive_patterns ==
    <<
      <<
        <<97, 109, 97, 122, 105, 110, 103>>,    \* amazing
        <<97, 119, 101, 115, 111, 109, 101>>,    \* awesome
        <<103, 114, 101, 97, 116>>,    \* great
        <<101, 120, 99, 101, 108, 108, 101, 110, 116>>,    \* excellent
        <<112, 101, 114, 102, 101, 99, 116>>,    \* perfect
        <<108, 111, 118, 101>>,    \* love
        <<98, 101, 115, 116>>    \* best
      >>,
      <<
        <<105, 110, 99, 114, 101, 100, 105, 98, 108, 101>>,    \* incredible
        <<102, 97, 110, 116, 97, 115, 116, 105, 99>>,    \* fantastic
        <<119, 111, 110, 100, 101, 114, 102, 117, 108>>,    \* wonderful
        <<111, 117, 116, 115, 116, 97, 110, 100, 105, 110, 103>>,    \* outstanding
        <<98, 114, 105, 108, 108, 105, 97, 110, 116>>    \* brilliant
      >>
    >>

\* negative_patterns
negative_patterns ==
    <<
      <<
        <<116, 101, 114, 114, 105, 98, 108, 101>>,    \* terrible
        <<97, 119, 102, 117, 108>>,    \* awful
        <<119, 111, 114, 115, 116>>,    \* worst
        <<104, 97, 116, 101>>,    \* hate
        <<104, 111, 114, 114, 105, 98, 108, 101>>,    \* horrible
        <<98, 97, 100>>    \* bad
      >>,
      <<
        <<100, 105, 115, 97, 112, 112, 111, 105, 110, 116, 105, 110, 103>>,    \* disappointing
        <<102, 114, 117, 115, 116, 114, 97, 116, 105, 110, 103>>,    \* frustrating
        <<97, 110, 110, 111, 121, 105, 110, 103>>,    \* annoying
        <<112, 111, 111, 114>>    \* poor
      >>
    >>

\* urgency_patterns
urgency_patterns ==
    <<
      <<
        <<117, 114, 103, 101, 110, 116>>,    \* urgent
        <<105, 109, 109, 101, 100, 105, 97, 116, 101>>,    \* immediate
        <<97, 115, 97, 112>>,    \* asap
        <<113, 117, 105, 99, 107, 108, 121>>,    \* quickly
        <<102, 97, 115, 116>>,    \* fast
        <<114, 97, 112, 105, 100>>    \* rapid
      >>,
      <<
        <<100, 101, 97, 100, 108, 105, 110, 101>>,    \* deadline
        <<101, 120, 112, 105, 114, 101, 115>>,    \* expires
        <<108, 105, 109, 105, 116, 101, 100>>,    \* limited
        <<101, 110, 100, 105, 110, 103>>,    \* ending
        <<102, 105, 110, 97, 108>>    \* final
      >>
    >>

\* common_words
common_words ==
    {<<116, 104, 101>>,
     <<97, 110, 100>>,
     <<111, 114>>,
     <<98, 117, 116>>,
     <<105, 110>>,
     <<111, 110>>,
     <<97, 116>>,
     <<116, 111>>,
     <<102, 111, 114>>,
     <<111, 102>>,
     <<119, 105, 116, 104>>,
     <<98, 121>>}

(***************************************************************************)
(* extract_features                                                        *)
(***************************************************************************)
\* str.split(): the maximal runs of non-whitespace characters
RECURSIVE SplitFrom(_, _, _)
SplitFrom(t, i, acc) ==
    IF i > Len(t) THEN acc
    ELSE IF IsSpace(t[i]) THEN SplitFrom(t, i + 1, acc)
    ELSE LET j == RunEnd(t, [k \in 1..Len(t) |-> ~IsSpace(t[k])], i)
         IN  SplitFrom(t, j, Append(acc, Slice(t, i, j - 1)))

Split(t) == SplitFrom(t, 1, <<>>)

\* str.split(sep) for a one-character separator: the segments between
\* consecutive separators, empty ones included
RECURSIVE SplitOnFrom(_, _, _, _)
SplitOnFrom(t, sep, i, acc) ==
    LET j == RunEnd(t, [k \in 1..Len(t) |-> t[k] # sep], i)
    IN  IF j > Len(t) THEN Append(acc, Slice(t, i, Len(t)))
        ELSE SplitOnFrom(t, sep, j + 1, Append(acc, Slice(t, i, j - 1)))

SplitOn(t, sep) == SplitOnFrom(t, sep, 1, <<>>)

\* str.count(c) for a one-character c
Count(t, c) == Cardinality({i \in 1..Len(t) : t[i] = c})

\* len([s for s in text.split('.') if s])
SentenceCountNoStrip(t) ==
    LET segs == SplitOn(t, 46)
    IN  Cardinality({k \in 1..Len(segs) : segs[k] # <<>>})

\* len([s for s in text.split('.') if s.strip()])
SentenceCount(t) ==
    LET segs == SplitOn(t, 46)
    IN  Cardinality({k \in 1..Len(segs) : Strip(segs[k]) # <<>>})

\* \b[A-Z]{3,}\b at position i
MatchAllCaps(t, i) ==
    IF Boundary(t, i) /\ IsUpper(t[i])
    THEN LET j == RunEnd(t, [k \in 1..Len(t) |-> IsUpper(t[k])], i)
         IN  IF j - i >= 3 /\ Boundary(t, j) THEN j ELSE 0
    ELSE 0

AllCapsSpans(t) == Matches([i \in 1..Len(t) |-> MatchAllCaps(t, i)])

\* the quotient without its "if text" guard
CapsRatioUnguarded(t) ==
    [num |-> Cardinality({i \in 1..Len(t) : IsUpper(t[i])}), den |-> Len(t)]

\* the uppercase characters per word
CapsRatioPerWord(t) ==
    IF t # <<>>
    THEN [num |-> Cardinality({i \in 1..Len(t) : IsUpper(t[i])}), den |-> Len(Split(t))]
    ELSE [num |-> 0, den |-> 1]

\* sum(1 for c in text if c.isupper()) / len(text) if text else 0,
\* the quotient kept as numerator and denominator
CapsRatio(t) ==
    IF t # <<>>
    THEN [num |-> Cardinality({i \in 1..Len(t) : IsUpper(t[i])}), den |-> Len(t)]
    ELSE [num |-> 0, den |-> 1]

\* \d at position i
MatchOneDigit(t, i) == IF IsDigit(t[i]) THEN i + 1 ELSE 0

\* \d+ at position i
MatchDigits(t, i) ==
    IF IsDigit(t[i])
    THEN RunEnd(t, [k \in 1..Len(t) |-> IsDigit(t[k])], i)
    ELSE 0

DigitSpans(t) == Matches([i \in 1..Len(t) |-> MatchDigits(t, i)])

\* \d+% at position i
MatchPercent(t, i) ==
    LET j == MatchDigits(t, i)
    IN  IF j # 0 /\ j <= Len(t) /\ t[j] = 37 THEN j + 1 ELSE 0

PercentSpans(t) == Matches([i \in 1..Len(t) |-> MatchPercent(t, i)])

\* \$\d+ at position i
MatchPrice(t, i) ==
    IF t[i] = 36 /\ i + 1 <= Len(t) THEN MatchDigits(t, i + 1) ELSE 0

PriceSpans(t) == Matches([i \in 1..Len(t) |-> MatchPrice(t, i)])

\* TextProcessor.extract_features
extract_features(t) ==
    [ word_count          |-> Len(Split(t)),
      char_count          |-> Len(t),
      sentence_count      |-> SentenceCount(t),
      all_caps_words      |-> Len(AllCapsSpans(t)),
      caps_ratio          |-> CapsRatio(t),
      exclamation_count   |-> Count(t, 33),
      question_count      |-> Count(t, 63),
      emoji_count         |-> Len(EmojiSpans(t)),
      number_count        |-> Len(DigitSpans(t)),
      percentage_mentions |-> Len(PercentSpans(t)),
      price_mentions      |-> Len(PriceSpans(t)),
      cta_signals         |-> SumMatches(t, features_cta_patterns, 1) ]

(***************************************************************************)
(* extract_buzzwords                                                       *)
(***************************************************************************)
\* text.translate(str.maketrans('', '', string.punctuation))
RemovePunct(t) == SelectSeq(t, LAMBDA c : ~IsPunct(c))

\* the words longer than the minimum
BuzzwordsLonger(t, m) ==
    SelectSeq(Split(LowerSeq(RemovePunct(t))),
              LAMBDA w : Len(w) > m /\ w \notin common_words)

\* the words kept, in the order of the text
Buzzwords(t, m) ==
    SelectSeq(Split(LowerSeq(RemovePunct(t))),
              LAMBDA w : Len(w) >= m /\ w \notin common_words)

SeqToSet(s) == {s[k] : k \in 1..Len(s)}

(***************************************************************************)
(* extract_cta_text                                                        *)
(***************************************************************************)
\* for pattern in cta_patterns: ctas.extend(re.findall(pattern, text, re.I))
RECURSIVE ExtendAll(_, _, _)
ExtendAll(t, patterns, k) ==
    IF k > Len(patterns) THEN <<>>
    ELSE FindAll(t, WordSpans(t, patterns[k])) \o ExtendAll(t, patterns, k + 1)

\* one scan for the phrases of all three groups
extract_cta_text_one_scan(t) ==
    FindAll(t, WordSpans(t, cta_patterns[1] \o cta_patterns[2] \o cta_patterns[3]))

\* TextProcessor.extract_cta_text
extract_cta_text(t) == ExtendAll(t, cta_patterns, 1)

(***************************************************************************)
(* analyze_sentiment_indicators                                            *)
(***************************************************************************)
\* TextProcessor.analyze_sentiment_indicators
analyze_sentiment_indicators(t) ==
    [ positive_count |-> SumMatches(t, positive_patterns, 1),
      negative_count |-> SumMatches(t, negative_patterns, 1),
      urgency_count  |-> SumMatches(t, urgency_patterns, 1) ]

(***************************************************************************)
(* The calls.  A behaviour is one call of one method on one text: the      *)
(* methods keep no state between calls.                                    *)
(***************************************************************************)
\* the orders in which list(set(...)) may return the elements of S
RECURSIVE ListsOfSet(_)
ListsOfSet(S) ==
    IF S = {} THEN {<<>>}
    ELSE UNION {{<<x>> \o l : l \in ListsOfSet(S \ {x})} : x \in S}

\* the minimum lengths the calls pass
MaxMinLength == 4
MinLengths == 2..MaxMinLength

\* clean_text without its "if not text" guard: re.sub rejects None
CleanTextUnguarded ==
    /\ op = "idle"
    /\ \E re \in BOOLEAN :
         /\ remove_emojis' = re
         /\ IF text = None
            THEN outcome' = "raised" /\ result' = "TypeError"
            ELSE outcome' = "returned" /\ result' = clean_text(text, re)
    /\ op' = "clean_text"
    /\ UNCHANGED <<text, min_length>>
    /\ UNCHANGED <<thread_vars, config_vars>>

\* processor.clean_text(text, remove_emojis)
CleanText ==
    /\ op = "idle"
    /\ \E re \in BOOLEAN :
         /\ remove_emojis' = re
         /\ result' = clean_text(text, re)
    /\ op' = "clean_text"
    /\ outcome' = "returned"
    /\ UNCHANGED <<text, min_length>>
    /\ UNCHANGED <<thread_vars, config_vars>>

\* processor.extract_features(text); None has no split, and a zero
\* denominator is a ZeroDivisionError
ExtractFeatures ==
    /\ op = "idle"
    /\ op' = "extract_features"
    /\ IF text = None
       THEN outcome' = "raised" /\ result' = "AttributeError"
       ELSE IF extract_features(text).caps_ratio.den = 0
       THEN outcome' = "raised" /\ result' = "ZeroDivisionError"
       ELSE outcome' = "returned" /\ result' = extract_features(text)
    /\ UNCHANGED <<text, remove_emojis, min_length>>
    /\ UNCHANGED <<thread_vars, config_vars>>

\* processor.extract_buzzwords(text, min_length); None has no translate
ExtractBuzzwords ==
    /\ op = "idle"
    /\ op' = "extract_buzzwords"
    /\ \E m \in MinLengths :
         /\ min_length' = m
         /\ IF text = None
            THEN outcome' = "raised" /\ result' = "AttributeError"
            ELSE /\ outcome' = "returned"
                 /\ result' \in ListsOfSet(SeqToSet(Buzzwords(text, m)))
    /\ UNCHANGED <<text, remove_emojis>>
    /\ UNCHANGED <<thread_vars, config_vars>>

\* processor.extract_cta_text(text); re.findall rejects None
ExtractCtaText ==
    /\ op = "idle"
    /\ op' = "extract_cta_text"
    /\ IF text = None
       THEN outcome' = "raised" /\ result' = "TypeError"
       ELSE outcome' = "returned" /\ result' = extract_cta_text(text)
    /\ UNCHANGED <<text, remove_emojis, min_length>>
    /\ UNCHANGED <<thread_vars, config_vars>>

\* processor.analyze_sentiment_indicators(text); re.findall rejects None
AnalyzeSentimentIndicators ==
    /\ op = "idle"
    /\ op' = "analyze_sentiment_indicators"
    /\ IF text = None
       THEN outcome' = "raised" /\ result' = "TypeError"
       ELSE outcome' = "returned" /\ result' = analyze_sentiment_indicators(text)
    /\ UNCHANGED <<text, remove_emojis, min_length>>
    /\ UNCHANGED <<thread_vars, config_vars>>

Next ==
    \/ CleanText
    \/ ExtractFeatures
    \/ ExtractBuzzwords
    \/ ExtractCtaText
    \/ AnalyzeSentimentIndicators

(***************************************************************************)
(* Concurrent calls.  Each thread makes one call, on the shared            *)
(* TextProcessor or through a module-level convenience function (which     *)
(* builds a TextProcessor of its own), and runs it statement by statement; *)
(* the statements of different threads interleave.  A frame holds the      *)
(* call's arguments and local variables.                                   *)
(***************************************************************************)
\* the ranges of the character class TextProcessor.__init__ compiles
EmojiRanges ==
    << <<128512, 128591>>, <<127744, 128511>>, <<128640, 128767>>,
       <<127456, 127487>>, <<9986, 10160>>, <<9410, 127569>> >>

\* does the compiled class pat hold the character c
InPattern(pat, c) == \E k \in 1..Len(pat) : c \in pat[k][1]..pat[k][2]

\* pat.findall(t) / pat.sub('', t) for a compiled class pat with +
MatchPattern(pat, t, i) ==
    IF InPattern(pat, t[i])
    THEN RunEnd(t, [k \in 1..Len(t) |-> InPattern(pat, t[k])], i)
    ELSE 0

PatternSpans(pat, t) == Matches([i \in 1..Len(t) |-> MatchPattern(pat, t, i)])

\* extract_features with the pattern the processor holds
extract_features_with(pat, t) ==
    [extract_features(t) EXCEPT !.emoji_count = Len(PatternSpans(pat, t))]

NumThreads == 2
Threads == 1..NumThreads

IdleFrame ==
    [pc |-> "idle", method |-> "none", via |-> "none", arg |-> <<>>,
     flag |-> FALSE, processor |-> <<>>, text |-> <<>>, result |-> <<>>]

\* the texts the threads pass
ThreadTexts ==
    { <<>>,    \* ""
      <<60, 97, 62, 128512, 32, 66, 117, 121, 32, 110, 111, 119>>    \* "<a>U+1F600 Buy now"
    }

Methods ==
    {"clean_text", "extract_features", "extract_buzzwords", "extract_cta_text",
     "analyze_sentiment_indicators"}

\* the pattern a call uses: its own processor's for a convenience
\* function, the shared processor's otherwise
PatternOf(c) == IF c.via = "module" THEN c.processor ELSE emoji_pattern

\* a thread calls a method of the shared processor, or one of the two
\* module-level functions
Call(t) ==
    /\ calls[t].pc = "idle"
    /\ \E m \in Methods, v \in {"processor", "module"}, a \in ThreadTexts, f \in BOOLEAN :
         /\ v = "module" => m \in {"clean_text", "extract_features"}
         /\ m # "clean_text" => ~f
         /\ calls' = [calls EXCEPT ![t] =
               [IdleFrame EXCEPT !.pc = IF v = "module" THEN "construct" ELSE "enter",
                                 !.method = m, !.via = v, !.arg = a, !.flag = f,
                                 !.text = a]]
    /\ UNCHANGED <<emoji_pattern, text_vars, config_vars>>

\* processor = TextProcessor(): the emoji pattern compiled into a new
\* object, which no other call holds
Construct(t) ==
    /\ calls[t].pc = "construct"
    /\ calls' = [calls EXCEPT ![t].processor = EmojiRanges, ![t].pc = "enter"]
    /\ UNCHANGED <<emoji_pattern, text_vars, config_vars>>

\* if not text: return ""
CleanGuard(t) ==
    /\ calls[t].pc = "enter" /\ calls[t].method = "clean_text"
    /\ calls' = IF calls[t].text = <<>>
                THEN [calls EXCEPT ![t].result = <<>>, ![t].pc = "done"]
                ELSE [calls EXCEPT ![t].pc = "tags"]
    /\ UNCHANGED <<emoji_pattern, text_vars, config_vars>>

\* text = re.sub(r'<[^>]+>', '', text)
CleanTags(t) ==
    /\ calls[t].pc = "tags"
    /\ calls' = [calls EXCEPT ![t].text = RemoveTags(@), ![t].pc = "urls"]
    /\ UNCHANGED <<emoji_pattern, text_vars, config_vars>>

\* text = re.sub(r'http[s]?://...', '', text)
CleanUrls(t) ==
    /\ calls[t].pc = "urls"
    /\ calls' = [calls EXCEPT ![t].text = RemoveUrls(@), ![t].pc = "emojis"]
    /\ UNCHANGED <<emoji_pattern, text_vars, config_vars>>

\* the emoji step of a call that clears self.emoji_pattern after using it
CleanEmojisClearing(t) ==
    /\ calls[t].pc = "emojis"
    /\ calls' = [calls EXCEPT
                    ![t].text = IF calls[t].flag
                                THEN Sub(@, PatternSpans(PatternOf(calls[t]), @), <<>>)
                                ELSE @,
                    ![t].pc = "spaces"]
    /\ emoji_pattern' = IF calls[t].flag /\ calls[t].via = "processor"
                        THEN <<>> ELSE emoji_pattern
    /\ UNCHANGED <<text_vars, config_vars>>

\* if remove_emojis: text = self.emoji_pattern.sub('', text)
CleanEmojis(t) ==
    /\ calls[t].pc = "emojis"
    /\ calls' = [calls EXCEPT
                    ![t].text = IF calls[t].flag
                                THEN Sub(@, PatternSpans(PatternOf(calls[t]), @), <<>>)
                                ELSE @,
                    ![t].pc = "spaces"]
    /\ UNCHANGED <<emoji_pattern, text_vars, config_vars>>

\* text = re.sub(r'\s+', ' ', text)
CleanSpaces(t) ==
    /\ calls[t].pc = "spaces"
    /\ calls' = [calls EXCEPT ![t].text = CollapseSpaces(@), ![t].pc = "strip"]
    /\ UNCHANGED <<emoji_pattern, text_vars, config_vars>>

\* text = text.strip(); return text
CleanReturn(t) ==
    /\ calls[t].pc = "strip"
    /\ calls' = [calls EXCEPT ![t].result = Strip(calls[t].text),
                              ![t].text = Strip(calls[t].text), ![t].pc = "done"]
    /\ UNCHANGED <<emoji_pattern, text_vars, config_vars>>

\* extract_features: its features dictionary is local; line 84 reads
\* self.emoji_pattern
FeaturesBody(t) ==
    /\ calls[t].pc = "enter" /\ calls[t].method = "extract_features"
    /\ calls' = [calls EXCEPT
                    ![t].result = extract_features_with(PatternOf(calls[t]), calls[t].text),
                    ![t].pc = "done"]
    /\ UNCHANGED <<emoji_pattern, text_vars, config_vars>>

\* extract_buzzwords with the default min_length
BuzzwordsBody(t) ==
    /\ calls[t].pc = "enter" /\ calls[t].method = "extract_buzzwords"
    /\ \E l \in ListsOfSet(SeqToSet(Buzzwords(calls[t].text, 3))) :
         calls' = [calls EXCEPT ![t].result = l, ![t].pc = "done"]
    /\ UNCHANGED <<emoji_pattern, text_vars, config_vars>>

\* extract_cta_text
CtaTextBody(t) ==
    /\ calls[t].pc = "enter" /\ calls[t].method = "extract_cta_text"
    /\ calls' = [calls EXCEPT ![t].result = extract_cta_text(calls[t].text),
                              ![t].pc = "done"]
    /\ UNCHANGED <<emoji_pattern, text_vars, config_vars>>

\* analyze_sentiment_indicators
SentimentBody(t) ==
    /\ calls[t].pc = "enter" /\ calls[t].method = "analyze_sentiment_indicators"
    /\ calls' = [calls EXCEPT
                    ![t].result = analyze_sentiment_indicators(calls[t].text),
                    ![t].pc = "done"]
    /\ UNCHANGED <<emoji_pattern, text_vars, config_vars>>

ThreadNext ==
    \E t \in Threads :
        \/ Call(t)
        \/ Construct(t)
        \/ CleanGuard(t)
        \/ CleanTags(t)
        \/ CleanUrls(t)
        \/ CleanEmojis(t)
        \/ CleanSpaces(t)
        \/ CleanReturn(t)
        \/ FeaturesBody(t)
        \/ BuzzwordsBody(t)
        \/ CtaTextBody(t)
        \/ SentimentBody(t)

\* the state once the shared TextProcessor is constructed, no call made
InitThreads ==
    /\ emoji_pattern = EmojiRanges
    /\ calls = [t \in Threads |-> IdleFrame]

(***************************************************************************)
(* ConfigManager.load_config.  Strings are sequences of code points, a     *)
(* parsed configuration is a set of <<key, value>> pairs, and a file is    *)
(* <<"absent", 0>>, <<"bad", 0>> (it cannot be read or parsed),            *)
(* <<"empty", 0>> (no document in it) or <<"map", v>> (it holds the        *)
(* mapping {"version": v}).                                                *)
(***************************************************************************)
ExtYml == <<46, 121, 109, 108>>     \* ".yml"
ExtYaml == <<46, 121, 97, 109, 108>>    \* ".yaml"
ExtJson == <<46, 106, 115, 111, 110>>    \* ".json"
TypeAuto == <<97, 117, 116, 111>>    \* "auto"
TypeJson == <<106, 115, 111, 110>>    \* "json"
TypeYaml == <<121, 97, 109, 108>>    \* "yaml"
TypeYml == <<121, 109, 108>>    \* "yml"
AppName == <<97, 112, 112>>    \* "app"
AppTxt == <<97, 112, 112, 46, 116, 120, 116>>    \* "app.txt"

\* the config_name and config_type arguments of the calls
ConfigNames == {AppName, AppTxt}
ConfigTypes == {TypeAuto, TypeJson}

\* the files of config_dir that come and go
ConfigFiles == {AppName \o ExtYml, AppName \o ExtJson, AppTxt}

MaxVersion == 2
Contents == {<<"bad", 0>>, <<"empty", 0>>} \cup {<<"map", v>> : v \in 1..MaxVersion}

\* None, for a path
NoPath == <<>>

\* {}
EmptyConfig == {}

\* test_path.exists()
Exists(fs, p) == p \in DOMAIN fs /\ fs[p][1] # "absent"

\* '.' in config_name
HasDot(name) == \E k \in 1..Len(name) : name[k] = 46

\* Path.suffix: from the last dot of the name on, '' without one or with
\* only a leading one
Suffix(p) ==
    LET dots == {k \in 2..Len(p) : p[k] = 46}
    IN  IF dots = {} \/ Len(p) = 0 THEN <<>>
        ELSE LET d == CHOOSE k \in dots : \A j \in dots : j <= k
             IN  IF d = Len(p) THEN <<>> ELSE Slice(p, d, Len(p))

\* the first of the extensions exts, from position k on, that config_name
\* exists with; None when there is none
RECURSIVE FirstExisting(_, _, _, _)
FirstExisting(fs, name, exts, k) ==
    IF k > Len(exts) THEN NoPath
    ELSE IF Exists(fs, name \o exts[k]) THEN name \o exts[k]
    ELSE FirstExisting(fs, name, exts, k + 1)

\* _find_config_file
find_config_file(fs, config_name, config_type) ==
    IF ~HasDot(config_name) /\ config_type # TypeJson
                            /\ config_type \notin {TypeYaml, TypeYml}
    THEN FirstExisting(fs, config_name, <<ExtYml, ExtYaml, ExtJson>>, 1)
    ELSE LET name == IF HasDot(config_name) THEN config_name
                     ELSE IF config_type = TypeJson THEN config_name \o ExtJson
                     ELSE config_name \o ExtYml
         IN  IF Exists(fs, name) THEN name ELSE NoPath

\* yaml.safe_load(f) or {}: an empty document loads as None
YamlLoad(content) ==
    CASE content[1] = "map" -> [ok |-> TRUE, config |-> {<<"version", content[2]>>}]
      [] content[1] = "empty" -> [ok |-> TRUE, config |-> EmptyConfig]
      [] OTHER -> [ok |-> FALSE, config |-> EmptyConfig]

\* json.load(f): an empty file is not a JSON document
JsonLoad(content) ==
    CASE content[1] = "map" -> [ok |-> TRUE, config |-> {<<"version", content[2]>>}]
      [] OTHER -> [ok |-> FALSE, config |-> EmptyConfig]

\* what a file may hold: load_config never opens a file of another suffix
\* than these three, so what such a file holds is not told apart
ContentsOf(f) ==
    IF LowerSeq(Suffix(f)) \in {ExtYml, ExtYaml, ExtJson} THEN Contents
    ELSE {<<"map", 1>>}

\* cache_key = f"{config_name}_{config_type}"
CacheKey(config_name, config_type) == config_name \o <<95>> \o config_type

\* no call made yet
NoCall ==
    [name |-> <<>>, type |-> <<>>, use_cache |-> FALSE, hit |-> FALSE,
     path |-> NoPath, opened |-> FALSE, parsed |-> FALSE, failed |-> FALSE,
     cached |-> FALSE, returned |-> EmptyConfig]

\* the body of load_config; hit says whether it returns from the cache
LoadBody(config_name, config_type, use_cache, hit) ==
    LET cache_key == CacheKey(config_name, config_type)
        config_path == find_config_file(files, config_name, config_type)
        suffix == LowerSeq(Suffix(config_path))
        opened == suffix \in {ExtYml, ExtYaml, ExtJson}
        load == IF suffix \in {ExtYml, ExtYaml} THEN YamlLoad(files[config_path])
                ELSE IF suffix = ExtJson THEN JsonLoad(files[config_path])
                ELSE [ok |-> TRUE, config |-> EmptyConfig]
        call == [NoCall EXCEPT !.name = config_name, !.type = config_type,
                               !.use_cache = use_cache]
    IN  IF hit
        THEN /\ loaded' = [call EXCEPT !.hit = TRUE,
                                       !.returned = config_cache[cache_key]]
             /\ UNCHANGED config_cache
        ELSE IF config_path = NoPath
        THEN /\ loaded' = call
             /\ UNCHANGED config_cache
        ELSE IF ~load.ok
        THEN /\ loaded' = [call EXCEPT !.path = config_path, !.opened = TRUE,
                                       !.failed = TRUE]
             /\ UNCHANGED config_cache
        ELSE /\ loaded' = [call EXCEPT !.path = config_path, !.opened = opened,
                                       !.parsed = opened, !.cached = use_cache,
                                       !.returned = load.config]
             /\ config_cache' =
                    IF use_cache
                    THEN [k \in DOMAIN config_cache \cup {cache_key} |->
                            IF k = cache_key THEN load.config ELSE config_cache[k]]
                    ELSE config_cache

\* load_config without the check of lines 46-47: the file is loaded again
LoadConfigRereading ==
    /\ \E config_name \in ConfigNames, config_type \in ConfigTypes, use_cache \in BOOLEAN :
         LoadBody(config_name, config_type, use_cache, FALSE)
    /\ UNCHANGED <<files, text_vars, thread_vars>>

\* load_config(config_name, config_type, use_cache)
LoadConfig ==
    /\ \E config_name \in ConfigNames, config_type \in ConfigTypes, use_cache \in BOOLEAN :
         LoadBody(config_name, config_type, use_cache,
                  use_cache /\ CacheKey(config_name, config_type) \in DOMAIN config_cache)
    /\ UNCHANGED <<files, text_vars, thread_vars>>

\* somebody writes a configuration file
WriteFile ==
    /\ \E f \in ConfigFiles : \E c \in ContentsOf(f) :
         /\ files[f] # c
         /\ files' = [files EXCEPT ![f] = c]
    /\ UNCHANGED <<config_cache, loaded, text_vars, thread_vars>>

\* somebody deletes a configuration file
DeleteFile ==
    /\ \E f \in ConfigFiles :
         /\ Exists(files, f)
         /\ files' = [files EXCEPT ![f] = <<"absent", 0>>]
    /\ UNCHANGED <<config_cache, loaded, text_vars, thread_vars>>

ConfigNext ==
    \/ LoadConfig
    \/ WriteFile
    \/ DeleteFile

\* a ConfigManager just constructed, on a directory without the files
InitConfig ==
    /\ files = [f \in ConfigFiles |-> <<"absent", 0>>]
    /\ config_cache = [k \in {} |-> EmptyConfig]
    /\ loaded = NoCall

(***************************************************************************)
(* The texts the calls are made on                                         *)
(***************************************************************************)
RECURSIVE Flatten(_)
Flatten(ss) == IF ss = <<>> THEN <<>> ELSE Head(ss) \o Flatten(Tail(ss))

\* the concatenations of at most n fragments
TextsOf(frags, n) == {Flatten(f) : f \in UNION {[1..k -> frags] : k \in 0..n}}

InitOn(texts) ==
    /\ text \in texts
    /\ op = "idle"
    /\ remove_emojis = FALSE
    /\ min_length = 3
    /\ outcome = "none"
    /\ result = <<>>
    /\ InitThreads
    /\ InitConfig

\* the texts of the specification's examples, and two more
Examples ==
    { <<>>,    \* ""
      <<66, 85, 89, 32, 78, 79, 87, 33, 33, 33>>,    \* "BUY NOW!!!"
      <<71, 101, 116, 32, 53, 48, 37, 32, 111, 102, 102, 44, 32, 111, 110, 108, 121, 32, 36, 50, 48, 32, 116, 111, 100, 97, 121, 33>>,    \* "Get 50% off, only $20 today!"
      <<84, 104, 105, 115, 32, 105, 115, 32, 97, 109, 97, 122, 105, 110, 103, 32, 97, 110, 100, 32, 116, 101, 114, 114, 105, 98, 108, 101, 44, 32, 97, 99, 116, 32, 110, 111, 119>>,    \* "This is amazing and terrible, act now"
      <<84, 104, 101, 32, 81, 117, 105, 99, 107, 32, 66, 114, 111, 119, 110, 32, 70, 111, 120>>,    \* "The Quick Brown Fox"
      <<70, 97, 110, 116, 97, 115, 116, 105, 99, 32, 100, 101, 97, 108, 44, 32, 112, 111, 111, 114, 32, 100, 101, 97, 100, 108, 105, 110, 101>>,    \* "Fantastic deal, poor deadline"
      <<97, 99, 116, 32, 110, 111, 119, 32, 115, 104, 111, 112, 32, 110, 111, 119, 32, 115, 104, 111, 112, 32, 110, 111, 119>>     \* "act now shop now shop now"
    }

\* fragments of mixed texts
MixedFrags ==
    { <<66, 85, 89, 32, 78, 79, 87>>,    \* "BUY NOW"
      <<33>>,    \* "!"
      <<32>>,    \* " "
      <<53, 48, 37>>,    \* "50%"
      <<36, 50, 48>>,    \* "$20"
      <<46>>,    \* "."
      <<65, 97>>,    \* "Aa"
      <<128512>>     \* "U+1F600"
    }

\* fragments of markup: tags, URLs, whitespace, an emoji
CleanFrags ==
    { <<104, 116, 116, 112, 58, 47>>,    \* "http:/"
      <<104, 116, 116, 112, 115, 58, 47>>,    \* "https:/"
      <<47>>,    \* "/"
      <<60, 97, 62>>,    \* "<a>"
      <<60>>,    \* "<"
      <<62>>,    \* ">"
      <<32>>,    \* " "
      <<128512>>     \* "U+1F600"
    }

\* fragments of sentences
SentenceFrags ==
    { <<46>>,    \* "."
      <<32>>,    \* " "
      <<97>>,    \* "a"
      <<65>>,    \* "A"
      <<10>>     \* "\n"
    }

\* fragments of numeric content
NumberFrags ==
    { <<53>>,    \* "5"
      <<48>>,    \* "0"
      <<37>>,    \* "%"
      <<36>>,    \* "$"
      <<32>>,    \* " "
      <<97>>     \* "a"
    }

\* fragments of call-to-action words
CtaWordFrags ==
    { <<66, 85, 89>>,    \* "BUY"
      <<110, 111, 119>>,    \* "now"
      <<32>>,    \* " "
      <<33>>,    \* "!"
      <<115, 105, 103, 110, 32, 117, 112>>,    \* "sign up"
      <<115>>,    \* "s"
      <<65, 66>>     \* "AB"
    }

\* fragments of word lists
BuzzFrags ==
    { <<84, 104, 101>>,    \* "The"
      <<102, 111, 120>>,    \* "fox"
      <<70, 79, 88>>,    \* "FOX"
      <<32>>,    \* " "
      <<44>>     \* ","
    }

\* fragments of call-to-action phrases
CtaPhraseFrags ==
    { <<115, 104, 111, 112, 32, 110, 111, 119>>,    \* "shop now"
      <<65, 99, 116, 32, 110, 111, 119>>,    \* "Act now"
      <<99, 108, 105, 99, 107, 32, 104, 101, 114, 101>>,    \* "click here"
      <<32>>,    \* " "
      <<115>>     \* "s"
    }

\* fragments of spaced text: whitespace of three kinds around a letter, a
\* tag, a URL and an emoji
WhitespaceFrags ==
    { <<32>>,    \* " "
      <<10>>,    \* "\n"
      <<9>>,    \* "\t"
      <<97>>,    \* "a"
      <<60, 97, 62>>,    \* "<a>"
      <<104, 116, 116, 112, 58, 47, 47, 97>>,    \* "http://a"
      <<128512>>     \* "U+1F600"
    }

MaxMixedFrags == 3
MaxCleanFrags == 4
MaxSentenceFrags == 5
MaxNumberFrags == 4
MaxCtaWordFrags == 4
MaxBuzzFrags == 5
MaxCtaPhraseFrags == 4
MaxWhitespaceFrags == 4

Init == InitOn(Examples \cup {None} \cup TextsOf(MixedFrags, MaxMixedFrags))
Spec == Init /\ [][Next]_vars

InitClean == InitOn(TextsOf(CleanFrags, MaxCleanFrags))
SpecClean == InitClean /\ [][Next]_vars

InitSentences == InitOn(TextsOf(SentenceFrags, MaxSentenceFrags))
SpecSentences == InitSentences /\ [][Next]_vars

InitNumbers == InitOn(TextsOf(NumberFrags, MaxNumberFrags) \cup Examples)
SpecNumbers == InitNumbers /\ [][Next]_vars

InitCtaWords == InitOn(TextsOf(CtaWordFrags, MaxCtaWordFrags) \cup Examples)
SpecCtaWords == InitCtaWords /\ [][Next]_vars

InitBuzzwords == InitOn(TextsOf(BuzzFrags, MaxBuzzFrags) \cup Examples)
SpecBuzzwords == InitBuzzwords /\ [][Next]_vars

InitCtaPhrases == InitOn(TextsOf(CtaPhraseFrags, MaxCtaPhraseFrags) \cup Examples)
SpecCtaPhrases == InitCtaPhrases /\ [][Next]_vars

InitWhitespace == InitOn(TextsOf(WhitespaceFrags, MaxWhitespaceFrags))
SpecWhitespace == InitWhitespace /\ [][Next]_vars

SpecThreads == InitOn({<<>>}) /\ [][ThreadNext]_vars
SpecConfig == InitOn({<<>>}) /\ [][ConfigNext]_vars

(***************************************************************************)
(* Properties                                                              *)
(***************************************************************************)
Returned(name) == op = name /\ outcome = "returned"

\* s holds a match of <[^>]+> : a '<', one or more characters other than
\* '>', and a '>'
HasTag(s) ==
    \E i, j \in 1..Len(s) :
        /\ i + 2 <= j
        /\ s[i] = 60
        /\ s[j] = 62
        /\ \A k \in (i + 1)..(j - 1) : s[k] # 62

\* s holds a match of the URL pattern: http:// or https:// and one
\* character (or %XX escape) of a URL
HasUrl(s) ==
    \E i \in 1..Len(s) :
        \/ LitAt(s, i, <<104, 116, 116, 112, 58, 47, 47>>) /\ UrlStep(s, i + 7) # 0
        \/ LitAt(s, i, <<104, 116, 116, 112, 115, 58, 47, 47>>) /\ UrlStep(s, i + 8) # 0

\* C1: with remove_emojis false, the text clean_text returns holds no HTML
\* tag and no http:// or https:// URL.
C1_CleanHasNoTagNoUrl ==
    (Returned("clean_text") /\ ~remove_emojis) => ~HasTag(result) /\ ~HasUrl(result)

\* a URL that only removing a tag brings into existence ("http:/<a>//")
\* is gone from the result
C1_Witness ==
    /\ Returned("clean_text") /\ ~remove_emojis
    /\ ~HasUrl(text) /\ HasTag(text)
    /\ HasUrl(RemoveTags(text))
    /\ ~HasUrl(result)

\* the empty string, the empty collection, or a mapping whose values are
\* all zero, according to the method called
EmptyOrZero ==
    CASE op = "clean_text" -> result = <<>>
      [] op = "extract_features" ->
            /\ \A k \in DOMAIN result \ {"caps_ratio"} : result[k] = 0
            /\ result.caps_ratio.num = 0
      [] op = "extract_buzzwords" -> result = <<>>
      [] op = "extract_cta_text" -> result = <<>>
      [] op = "analyze_sentiment_indicators" -> \A k \in DOMAIN result : result[k] = 0
      [] OTHER -> FALSE

\* C2 as stated: every call of the five methods returns, and on the empty
\* string or None it returns an empty or all-zero value.
C2_NeverRaises ==
    op # "idle" =>
        /\ outcome = "returned"
        /\ (text \in {<<>>, None} => EmptyOrZero)

\* C2 amended: on every string each of the five methods returns, and on
\* the empty string it returns an empty or all-zero value; on None
\* clean_text returns the empty string and the other four methods raise.
C2_ReturnsOnStrings ==
    op # "idle" =>
        /\ (text # None => outcome = "returned")
        /\ (text = <<>> => EmptyOrZero)
        /\ (text = None /\ op = "clean_text" => outcome = "returned" /\ result = <<>>)
        /\ (text = None /\ op # "clean_text" => outcome = "raised")

C2_Witness == text = None /\ op = "extract_features" /\ outcome = "raised"

\* the positions where one of the words occurs as a whole word, letters
\* compared without regard to case
Occurrences(t, words) ==
    {i \in 1..Len(t) :
        /\ Boundary(t, i)
        /\ \E k \in 1..Len(words) :
              LitAtCI(t, i, words[k]) /\ Boundary(t, i + Len(words[k]))}

\* whole-word occurrences summed over the word lists of a category
OccurrencesIn(t, lists) ==
    Cardinality({<<g, i>> \in (1..Len(lists)) \X (1..Len(t)) : i \in Occurrences(t, lists[g])})

Example3 == <<84, 104, 105, 115, 32, 105, 115, 32, 97, 109, 97, 122, 105, 110, 103, 32, 97, 110, 100, 32, 116, 101, 114, 114, 105, 98, 108, 101, 44, 32, 97, 99, 116, 32, 110, 111, 119>>    \* "This is amazing and terrible, act now"

\* C3 as stated: on "This is amazing and terrible, act now" the counts are
\* positive 1, negative 1, urgency 1.
C3_ExampleUrgencyOne ==
    (Returned("analyze_sentiment_indicators") /\ text = Example3) =>
        result = [positive_count |-> 1, negative_count |-> 1, urgency_count |-> 1]

\* C3 amended: on "This is amazing and terrible, act now" the counts are
\* positive 1, negative 1, urgency 0 ("act now" is in no urgency list), and
\* on every text each count is the number of whole-word occurrences, case
\* ignored, of the words of the category's two lists.
C3_SentimentCounts ==
    Returned("analyze_sentiment_indicators") =>
        /\ result.positive_count = OccurrencesIn(text, positive_patterns)
        /\ result.negative_count = OccurrencesIn(text, negative_patterns)
        /\ result.urgency_count = OccurrencesIn(text, urgency_patterns)
        /\ text = Example3 =>
              result = [positive_count |-> 1, negative_count |-> 1, urgency_count |-> 0]

C3_Witness ==
    /\ Returned("analyze_sentiment_indicators")
    /\ text = Example3
    /\ result.urgency_count = 0

\* C4: clean_text("") is "" whatever the flag, and extract_features("")
\* has every count 0 and caps_ratio 0, no division by zero occurring.
C4_EmptyText ==
    text = <<>> =>
        /\ op = "clean_text" => outcome = "returned" /\ result = <<>>
        /\ op = "extract_features" =>
              /\ outcome = "returned"
              /\ \A k \in DOMAIN result \ {"caps_ratio"} : result[k] = 0
              /\ result.caps_ratio.num = 0 /\ result.caps_ratio.den > 0

C4_Witness == text = <<>> /\ Returned("extract_features") /\ result.char_count = 0

FeatureKeys ==
    {"word_count", "char_count", "sentence_count", "all_caps_words", "caps_ratio",
     "exclamation_count", "question_count", "emoji_count", "number_count",
     "percentage_mentions", "price_mentions", "cta_signals"}

\* C5: extract_features returns exactly the 12 keys, every value but
\* caps_ratio a non-negative integer, and caps_ratio within [0, 1]: the
\* uppercase characters are at most char_count.
C5_FeatureMapping ==
    Returned("extract_features") =>
        /\ DOMAIN result = FeatureKeys
        /\ \A k \in FeatureKeys \ {"caps_ratio"} : result[k] \in Nat
        /\ result.caps_ratio.den > 0
        /\ 0 <= result.caps_ratio.num
        /\ result.caps_ratio.num <= result.caps_ratio.den
        /\ result.caps_ratio.num <= result.char_count

\* a text of more than one word, every letter of it uppercase
C5_Witness ==
    /\ Returned("extract_features")
    /\ result.word_count >= 2
    /\ result.caps_ratio.num > result.word_count
    /\ result.caps_ratio.num < result.caps_ratio.den

\* the positions where a segment between periods starts: a maximal run of
\* characters other than '.'
SegmentStarts(t) == {i \in 1..Len(t) : t[i] # 46 /\ (i = 1 \/ t[i - 1] = 46)}

\* the segment starting at i holds a character that is no whitespace
SegmentHasText(t, i) ==
    \E j \in i..Len(t) : ~IsSpace(t[j]) /\ \A k \in i..j : t[k] # 46

\* C6 as stated: sentence_count is the number of segments between periods
\* that hold at least one character, whitespace-only segments included.
C6_CountsNonEmptySegments ==
    Returned("extract_features") =>
        result.sentence_count = Cardinality(SegmentStarts(text))

\* C6 amended: sentence_count is the number of segments between periods
\* that hold at least one character that is not whitespace.
C6_CountsNonBlankSegments ==
    Returned("extract_features") =>
        result.sentence_count =
            Cardinality({i \in SegmentStarts(text) : SegmentHasText(text, i)})

\* a text with a whitespace-only segment between two sentences
C6_Witness ==
    /\ Returned("extract_features")
    /\ \E i \in SegmentStarts(text) : ~SegmentHasText(text, i)
    /\ result.sentence_count = 2

\* the positions where a maximal run of digits starts, and where one ends
DigitRunStarts(t) == {i \in 1..Len(t) : IsDigit(t[i]) /\ (i = 1 \/ ~IsDigit(t[i - 1]))}
DigitRunEnds(t) == {i \in 1..Len(t) : IsDigit(t[i]) /\ (i = Len(t) \/ ~IsDigit(t[i + 1]))}

Example7 == <<71, 101, 116, 32, 53, 48, 37, 32, 111, 102, 102, 44, 32, 111, 110, 108, 121, 32, 36, 50, 48, 32, 116, 111, 100, 97, 121, 33>>    \* "Get 50% off, only $20 today!"

\* C7: number_count is the number of maximal digit runs, percentage_mentions
\* the number of those followed at once by '%', price_mentions the number of
\* those preceded at once by '$'; neither exceeds number_count; and
\* "Get 50% off, only $20 today!" gives 1, 1 and 2.
C7_NumericCounts ==
    Returned("extract_features") =>
        /\ result.number_count = Cardinality(DigitRunStarts(text))
        /\ result.percentage_mentions =
              Cardinality({i \in DigitRunEnds(text) : i < Len(text) /\ text[i + 1] = 37})
        /\ result.price_mentions =
              Cardinality({i \in DigitRunStarts(text) : i > 1 /\ text[i - 1] = 36})
        /\ result.percentage_mentions <= result.number_count
        /\ result.price_mentions <= result.number_count
        /\ text = Example7 =>
              /\ result.percentage_mentions = 1
              /\ result.price_mentions = 1
              /\ result.number_count = 2

\* a run of two digits that is a price and a percentage at once ("$50%")
C7_Witness ==
    /\ Returned("extract_features")
    /\ result.char_count = 4
    /\ result.number_count = 1
    /\ result.percentage_mentions = 1
    /\ result.price_mentions = 1

\* the positions where a whole word (a maximal run of word characters) of
\* three or more characters, all of them uppercase letters, starts
AllCapsWordStarts(t) ==
    {i \in 1..Len(t) :
        /\ IsWord(t[i]) /\ (i = 1 \/ ~IsWord(t[i - 1]))
        /\ \E j \in i..Len(t) :
              /\ j - i + 1 >= 3
              /\ \A k \in i..j : IsUpper(t[k])
              /\ (j = Len(t) \/ ~IsWord(t[j + 1]))}

\* the single-word call-to-action words, in uppercase
UpperCtaWords ==
    {[k \in 1..Len(w) |-> w[k] - 32] :
        w \in {features_cta_patterns[g][n] :
                  <<g, n>> \in {p \in (1..2) \X (1..8) :
                                   p[2] <= Len(features_cta_patterns[p[1]])}} \ {<<115, 105, 103, 110, 32, 117, 112>>}}

\* t is uppercase call-to-action words, one space between them, followed by
\* n exclamation marks
IsShout(t, n) ==
    /\ n <= Len(t)
    /\ \A i \in (Len(t) - n + 1)..Len(t) : t[i] = 33
    /\ LET body == Slice(t, 1, Len(t) - n)
       IN  /\ body # <<>>
           /\ \A i \in 1..Len(body) : IsUpper(body[i]) \/ body[i] = 32
           /\ \A i \in 1..Len(body) :
                 body[i] = 32 => i > 1 /\ i < Len(body) /\ body[i + 1] # 32
           /\ \A i, j \in 1..Len(body) :
                 ( /\ i <= j
                   /\ (i = 1 \/ body[i - 1] = 32)
                   /\ (j = Len(body) \/ body[j + 1] = 32)
                   /\ \A k \in i..j : body[k] # 32 )
                 => Slice(body, i, j) \in UpperCtaWords

Example8 == <<66, 85, 89, 32, 78, 79, 87, 33, 33, 33>>    \* "BUY NOW!!!"

\* C8: cta_signals is the number of whole-word occurrences, case ignored,
\* of the words of the first list plus that of the words of the second;
\* all_caps_words is the number of whole words of three or more letters
\* that are all uppercase; so uppercase call-to-action words followed by n
\* exclamation marks give exclamation_count n, all_caps_words >= 1 and
\* cta_signals >= 1, and "BUY NOW!!!" gives 3.
C8_CtaSignalsAndCaps ==
    Returned("extract_features") =>
        /\ result.cta_signals = OccurrencesIn(text, features_cta_patterns)
        /\ result.all_caps_words = Cardinality(AllCapsWordStarts(text))
        /\ \A n \in 0..Len(text) :
              IsShout(text, n) =>
                  /\ result.exclamation_count = n
                  /\ result.all_caps_words >= 1
                  /\ result.cta_signals >= 1
        /\ text = Example8 =>
              /\ IsShout(text, 3)
              /\ result.exclamation_count = 3

\* uppercase call-to-action words and exclamation marks, other than the
\* example
C8_Witness ==
    /\ Returned("extract_features")
    /\ text # Example8
    /\ \E n \in 1..Len(text) : IsShout(text, n)
    /\ result.cta_signals >= 1
    /\ result.all_caps_words = result.cta_signals

\* the tokens of u: its maximal runs of characters that are no whitespace
Tokens(u) ==
    {Slice(u, i, j) : <<i, j>> \in
        {p \in (1..Len(u)) \X (1..Len(u)) :
            /\ p[1] <= p[2]
            /\ \A k \in p[1]..p[2] : ~IsSpace(u[k])
            /\ (p[1] = 1 \/ IsSpace(u[p[1] - 1]))
            /\ (p[2] = Len(u) \/ IsSpace(u[p[2] + 1]))}}

\* C9: extract_buzzwords returns a list without duplicates whose elements
\* are exactly the tokens of the text with its punctuation removed and its
\* letters lowercased, of length >= min_length and outside the stopwords.
C9_BuzzwordSet ==
    Returned("extract_buzzwords") =>
        /\ \A a, b \in 1..Len(result) : a # b => result[a] # result[b]
        /\ SeqToSet(result) =
              {w \in Tokens(LowerSeq(RemovePunct(text))) :
                  Len(w) >= min_length /\ w \notin common_words}

\* a word met in two letter cases, and a stopword, in the text; the word
\* once in the result
C9_Witness ==
    /\ Returned("extract_buzzwords")
    /\ Cardinality(Tokens(RemovePunct(text))) = 3
    /\ Tokens(LowerSeq(RemovePunct(text))) \cap common_words # {}
    /\ Cardinality(Tokens(LowerSeq(RemovePunct(text)))) < Cardinality(Tokens(RemovePunct(text)))
    /\ Len(result) = 1
    /\ Len(result[1]) = min_length

\* the whole-word occurrences of a group's phrases as <<start, end + 1>>
PhraseSpans(t, phrases) ==
    {<<i, i + Len(phrases[k])>> : <<i, k>> \in
        {p \in (1..Len(t)) \X (1..Len(phrases)) :
            /\ Boundary(t, p[1])
            /\ LitAtCI(t, p[1], phrases[p[2]])
            /\ Boundary(t, p[1] + Len(phrases[p[2]]))}}

\* the texts of a set of spans in left-to-right order
InTextOrder(t, S) ==
    [k \in 1..Cardinality(S) |->
        LET sp == CHOOSE x \in S : Cardinality({q \in S : q[1] < x[1]}) = k - 1
        IN  Slice(t, sp[1], sp[2] - 1)]

\* how often the text p is in the sequence s
TimesIn(s, p) == Cardinality({k \in 1..Len(s) : s[k] = p})

\* C10: extract_cta_text returns the matches of the action group, then
\* those of the instruction group, then those of the urgency group, each
\* group's in left-to-right order; a phrase that occurs k times in the text
\* is k times in the result.
C10_CtaPhraseOrder ==
    Returned("extract_cta_text") =>
        /\ result = InTextOrder(text, PhraseSpans(text, cta_patterns[1]))
                    \o InTextOrder(text, PhraseSpans(text, cta_patterns[2]))
                    \o InTextOrder(text, PhraseSpans(text, cta_patterns[3]))
        /\ \A g \in 1..3 : \A sp \in PhraseSpans(text, cta_patterns[g]) :
              LET p == Slice(text, sp[1], sp[2] - 1)
              IN  TimesIn(result, p) =
                      Cardinality({q \in PhraseSpans(text, cta_patterns[g]) :
                                      Slice(text, q[1], q[2] - 1) = p})

\* an urgency phrase before two action phrases in the text, after them in
\* the result
C10_Witness ==
    /\ Returned("extract_cta_text")
    /\ Len(result) = 3
    /\ result[1] = result[2]
    /\ result[3] # result[1]
    /\ LitAt(text, 1, result[3])

\* the characters of t at the positions where keep holds, in their order
KeepOnly(t, keep) ==
    LET idx == {i \in 1..Len(t) : keep[i]}
    IN  [k \in 1..Cardinality(idx) |->
            t[CHOOSE i \in idx : Cardinality({j \in idx : j < i}) = k - 1]]

\* position k lies in an HTML-like tag: from a '<' through the first '>'
\* that follows it, at least one character between them
InsideTag(t, k) ==
    \E i \in 1..k, q \in k..Len(t) :
        /\ t[i] = 60
        /\ t[q] = 62
        /\ i + 2 <= q
        /\ \A j \in (i + 1)..(q - 1) : t[j] # 62

\* a URL starts at i: http:// or https:// and a URL character
UrlStartsAt(t, i) ==
    \/ LitAt(t, i, <<104, 116, 116, 112, 58, 47, 47>>) /\ i + 7 <= Len(t) /\ IsUrlChar(t[i + 7])
    \/ LitAt(t, i, <<104, 116, 116, 112, 115, 58, 47, 47>>) /\ i + 8 <= Len(t) /\ IsUrlChar(t[i + 8])

\* position k lies in a URL: reached from a URL's start through URL
\* characters only
InsideUrl(t, k) ==
    \E i \in 1..k : UrlStartsAt(t, i) /\ \A j \in i..k : IsUrlChar(t[j])

WithoutTags(t) == KeepOnly(t, [k \in 1..Len(t) |-> ~InsideTag(t, k)])
WithoutUrls(t) == KeepOnly(t, [k \in 1..Len(t) |-> ~InsideUrl(t, k)])
WithoutEmojis(t) == KeepOnly(t, [k \in 1..Len(t) |-> ~IsEmoji(t[k])])

\* every whitespace run of t as one space
SingleSpaced(t) ==
    LET u == KeepOnly(t, [k \in 1..Len(t) |->
                 ~IsSpace(t[k]) \/ k = 1 \/ ~IsSpace(t[k - 1])])
    IN  [k \in 1..Len(u) |-> IF IsSpace(u[k]) THEN 32 ELSE u[k]]

\* t from its first to its last character that is no whitespace
Trimmed(t) ==
    KeepOnly(t, [k \in 1..Len(t) |->
        /\ \E a \in 1..k : ~IsSpace(t[a])
        /\ \E b \in k..Len(t) : ~IsSpace(t[b])])

NumEmojis(t) == Cardinality({k \in 1..Len(t) : IsEmoji(t[k])})

\* C11: on a non-empty text clean_text returns what the five steps give,
\* each applied to the result of the step before: tags removed, URLs
\* removed, emojis removed if remove_emojis, whitespace runs made one space,
\* the ends trimmed; with remove_emojis false the emoji step removes none
\* (the emojis left by the first two steps are all in the result).
C11_CleanIsTheFiveSteps ==
    (Returned("clean_text") /\ text # <<>> /\ text # None) =>
        LET t2 == WithoutUrls(WithoutTags(text))
            t3 == IF remove_emojis THEN WithoutEmojis(t2) ELSE t2
        IN  /\ result = Trimmed(SingleSpaced(t3))
            /\ ~remove_emojis => NumEmojis(result) = NumEmojis(t2)

\* an emoji removed from between two spaces, the spaces then made one and
\* trimmed from the start of what is left
C11_Witness ==
    /\ Returned("clean_text") /\ remove_emojis
    /\ \E k \in 2..(Len(text) - 1) :
          IsEmoji(text[k]) /\ text[k - 1] = 32 /\ text[k + 1] = 32
    /\ result # <<>>
    /\ Len(result) = Len(text) - 3

\* C13: the text clean_text returns has no whitespace at either end, no
\* whitespace character but the space, and no two spaces side by side.
C13_WhitespaceNormalForm ==
    Returned("clean_text") =>
        /\ result # <<>> => ~IsSpace(result[1]) /\ ~IsSpace(result[Len(result)])
        /\ \A k \in 1..Len(result) : IsSpace(result[k]) => result[k] = 32
        /\ \A k \in 1..(Len(result) - 1) : ~(result[k] = 32 /\ result[k + 1] = 32)

\* a tag, URL or emoji removed from between a newline or tab and the
\* whitespace that ends the text, nothing of them left after the letter
C13_Witness ==
    /\ Returned("clean_text") /\ remove_emojis
    /\ \E k \in 2..(Len(text) - 1) :
          /\ text[k] \in {60, 104, 128512}
          /\ text[k - 1] \in {9, 10}
    /\ IsSpace(text[Len(text)])
    /\ result = <<97>>

\* C14: clean_text is idempotent for both values of the flag: cleaning the
\* text it returned, with the same flag, returns that text.
C14_CleanIdempotent ==
    Returned("clean_text") => clean_text(result, remove_emojis) = result

\* what the call of frame c returns when it runs alone
ReturnsAlone(c) ==
    CASE c.method = "clean_text" -> c.result = clean_text(c.arg, c.flag)
      [] c.method = "extract_features" -> c.result = extract_features(c.arg)
      [] c.method = "extract_buzzwords" ->
            /\ SeqToSet(c.result) = SeqToSet(Buzzwords(c.arg, 3))
            /\ Len(c.result) = Cardinality(SeqToSet(c.result))
      [] c.method = "extract_cta_text" -> c.result = extract_cta_text(c.arg)
      [] c.method = "analyze_sentiment_indicators" ->
            c.result = analyze_sentiment_indicators(c.arg)
      [] OTHER -> FALSE

\* C12: under every interleaving of the threads' calls no step writes the
\* state the calls share (the processor's emoji pattern stays as compiled),
\* a step of one thread leaves every other thread's frame as it is, and
\* every call that has returned has returned what it returns alone.
C12_CallsDoNotInterfere ==
    /\ [](\A t \in Threads : calls[t].pc = "done" => ReturnsAlone(calls[t]))
    /\ [][/\ emoji_pattern' = emoji_pattern
          /\ \A t, u \in Threads :
                (t # u /\ calls'[t] # calls[t]) => calls'[u] = calls[u]]_vars

\* one thread has removed emojis with the shared pattern and returned
\* while another, which entered first, is still before its emoji step
C12_Witness ==
    /\ calls[1].pc = "done" /\ calls[1].method = "clean_text"
    /\ calls[1].via = "processor" /\ calls[1].flag
    /\ NumEmojis(calls[1].arg) > 0 /\ NumEmojis(calls[1].result) = 0
    /\ calls[2].pc = "emojis" /\ calls[2].via = "processor" /\ calls[2].flag
    /\ NumEmojis(calls[2].text) > 0

\* the last call's cache key
LoadedKey == CacheKey(loaded.name, loaded.type)
IsCall(c) == c.name # <<>>

\* a cached mapping is never replaced or dropped
CacheKept ==
    \A k \in DOMAIN config_cache :
        k \in DOMAIN config_cache' /\ config_cache'[k] = config_cache[k]

\* (b) a call that finds no file, or fails to read or parse the one it
\* finds, returns {} and leaves the cache unchanged
LoadFailureLeavesCache ==
    /\ [](IsCall(loaded) /\ ~loaded.hit /\ (loaded.path = NoPath \/ loaded.failed)
            => loaded.returned = EmptyConfig /\ ~loaded.cached)
    /\ [][(loaded' # loaded /\ ~loaded'.hit
             /\ (loaded'.path = NoPath \/ loaded'.failed))
            => config_cache' = config_cache]_vars

\* (c) a call with use_cache=False neither reads nor writes the cache: it
\* returns what the file loads as now, whatever is cached under its key
UncachedCallBypassesCache ==
    [][(loaded' # loaded /\ ~loaded'.use_cache) =>
         /\ config_cache' = config_cache
         /\ ~loaded'.hit
         /\ loaded'.returned =
              IF loaded'.path = NoPath \/ loaded'.failed
                 \/ LowerSeq(Suffix(loaded'.path)) \notin {ExtYml, ExtYaml, ExtJson}
                 \/ files[loaded'.path][1] # "map"
              THEN EmptyConfig
              ELSE {<<"version", files[loaded'.path][2]>>}]_vars

\* (d) once a key is cached, it stays cached with the same mapping, and
\* every later call with use_cache=True for it returns that mapping without
\* opening a file, whatever the files hold by then
CachedKeyIsServed ==
    /\ [][CacheKept]_vars
    /\ [][(loaded' # loaded /\ loaded'.use_cache
             /\ CacheKey(loaded'.name, loaded'.type) \in DOMAIN config_cache)
            => /\ loaded'.returned = config_cache[CacheKey(loaded'.name, loaded'.type)]
               /\ ~loaded'.opened /\ loaded'.path = NoPath]_vars

\* C15 as stated: the cache is written only by a call with use_cache=True
\* that found and parsed a file, together with (b), (c) and (d).
C15_CacheWrittenOnlyAfterParse ==
    /\ [](loaded.cached => loaded.use_cache /\ loaded.path # NoPath /\ loaded.parsed)
    /\ [][config_cache' # config_cache =>
            loaded'.use_cache /\ loaded'.path # NoPath /\ loaded'.parsed]_vars
    /\ LoadFailureLeavesCache
    /\ UncachedCallBypassesCache
    /\ CachedKeyIsServed

\* C15, amended: the cache is written only by a call with use_cache=True
\* that found a file and did not fail to load it, and what it stores under
\* its key is what it returns: the mapping parsed from a .yml, .yaml or
\* .json file, or {} for a file of any other suffix, which is never opened;
\* (b), (c) and (d) hold as stated.
C15_CacheWrittenOnlyAfterLoad ==
    /\ [](loaded.cached =>
            /\ loaded.use_cache /\ loaded.path # NoPath /\ ~loaded.failed
            /\ LoadedKey \in DOMAIN config_cache
            /\ config_cache[LoadedKey] = loaded.returned
            /\ \/ loaded.parsed /\ LowerSeq(Suffix(loaded.path)) \in {ExtYml, ExtYaml, ExtJson}
               \/ /\ ~loaded.opened /\ loaded.returned = EmptyConfig
                  /\ LowerSeq(Suffix(loaded.path)) \notin {ExtYml, ExtYaml, ExtJson})
    /\ [][config_cache' # config_cache =>
            /\ loaded'.cached
            /\ DOMAIN config_cache' = DOMAIN config_cache
                                        \cup {CacheKey(loaded'.name, loaded'.type)}]_vars
    /\ LoadFailureLeavesCache
    /\ UncachedCallBypassesCache
    /\ CachedKeyIsServed

\* a call is served version 1 from the cache although the file it was
\* loaded from has been rewritten or deleted since
C15_Witness ==
    /\ IsCall(loaded) /\ loaded.hit /\ loaded.name = AppName /\ loaded.type = TypeAuto
    /\ loaded.returned = {<<"version", 1>>}
    /\ \A f \in ConfigFiles : files[f] # <<"map", 1>>
    /\ \E f \in ConfigFiles : files[f] = <<"map", 2>>

====
